---------------------------- MODULE Spec2Model ----------------------------
(***************************************************************************)
(* rifiuti2, src/utils.c: option handling, the Windows version guess, the  *)
(* dump of the record list in text / XML / JSON, and the final exit code.  *)
(*                                                                         *)
(* Enumerations of the headers (out_fmt, rbin_type, detected_os_ver,       *)
(* exitcode, GError domains and codes) are modelled by their symbolic      *)
(* names.  A NULL string pointer is the string "NULL", a NULL GError is     *)
(* NoError and a NULL GString or converted text is the empty sequence.     *)
(***************************************************************************)
EXTENDS Integers, Sequences, FiniteSets, TLC

VARIABLES
    pc,               \* position of main(): which call runs next
    output_format,    \* utils.c:88
    no_heading,       \* utils.c:89
    use_localtime,    \* utils.c:90
    live_mode,        \* utils.c:91
    delim,            \* utils.c:92
    output_loc,       \* utils.c:93
    fileargs,         \* utils.c:94
    allidxfiles,      \* utils.c:95
    isolated_index,   \* utils.c:96
    legacy_encoding,  \* utils.c:97
    meta,             \* utils.c:98
    seen,             \* the three `static bool seen` of the option callbacks
    error,            \* the GError of main() handed to every call
    nargs,            \* number of command line arguments consumed so far
    idx,              \* position of the running g_ptr_array_foreach
    parsed,           \* the files do_parse_records has handed to func so far
    win_filetime,     \* argument of the running win_filetime_to_gdatetime
    deltime,          \* the GDateTime it returned
    checked,          \* the last call of _check_file_args, for the claims
    out,              \* everything g_print()ed so far
    exit_code,        \* value returned by rifiuti_cleanup / exit()
    G_DISABLE_ASSERT  \* build option of glib: g_assert_not_reached() is a no-op

vars == << pc, output_format, no_heading, use_localtime, live_mode, delim,
           output_loc, fileargs, allidxfiles, isolated_index, legacy_encoding,
           meta, seen, error, nargs, idx, parsed, win_filetime, deltime,
           checked, out, exit_code, G_DISABLE_ASSERT >>

NULL == "NULL"

-----------------------------------------------------------------------------
(* Bounds of the model *)

MaxRecords == 2     \* records one scan puts in meta->records
MaxArgs == 3        \* command line arguments handed to rifiuti_init
MaxFiles == 2       \* index files one run puts in allidxfiles

-----------------------------------------------------------------------------
(* Enumerations *)

RbinTypes == { "RECYCLE_BIN_TYPE_FILE", "RECYCLE_BIN_TYPE_DIR" }

Formats == { "FORMAT_TEXT", "FORMAT_XML", "FORMAT_JSON" }

\* detected_os_ver: the tags the $Recycle.bin reader can leave in
\* meta->version, then those of the INFO2 reader.  VERSION_OTHER stands for
\* any number that is none of the tags.
DirVersions ==
    { "VERSION_INCONSISTENT", "VERSION_NOT_FOUND", "VERSION_OTHER",
      "VERSION_VISTA", "VERSION_WIN10" }

FileVersions ==
    { "VERSION_INCONSISTENT", "VERSION_NOT_FOUND", "VERSION_OTHER",
      "VERSION_WIN95", "VERSION_NT4", "VERSION_WIN98", "VERSION_ME_03" }

VersionsOf(type) ==
    IF type = "RECYCLE_BIN_TYPE_DIR" THEN DirVersions ELSE FileVersions

\* _os_guess, utils.c:57-69
OsGuesses ==
    { "OS_GUESS_UNKNOWN", "OS_GUESS_95", "OS_GUESS_NT4", "OS_GUESS_98",
      "OS_GUESS_ME", "OS_GUESS_2K", "OS_GUESS_XP_03", "OS_GUESS_2K_03",
      "OS_GUESS_VISTA", "OS_GUESS_10" }

\* os_strings[], utils.c:75-85 (no entry for OS_GUESS_UNKNOWN)
os_strings ==
    [ g \in OsGuesses \ { "OS_GUESS_UNKNOWN" } |->
        CASE g = "OS_GUESS_95"    -> "Windows 95"
          [] g = "OS_GUESS_NT4"   -> "Windows NT 4.0"
          [] g = "OS_GUESS_98"    -> "Windows 98"
          [] g = "OS_GUESS_ME"    -> "Windows ME"
          [] g = "OS_GUESS_2K"    -> "Windows 2000"
          [] g = "OS_GUESS_XP_03" -> "Windows XP or 2003"
          [] g = "OS_GUESS_2K_03" -> "Windows 2000, XP or 2003"
          [] g = "OS_GUESS_VISTA" -> "Windows Vista - 8.1"
          [] g = "OS_GUESS_10"    -> "Windows 10 or above" ]

\* The record size _guess_windows_ver compares with, utils.c:824
LEGACY_RECORD_SIZE == 280

\* meta->recordsize: not set, the size above, and the size of the INFO2
\* records that carry both paths.
RecordSizes == { 0, LEGACY_RECORD_SIZE, 800 }

\* What a call that can hit g_assert_not_reached() ends with.
ABORT == "ABORT"

-----------------------------------------------------------------------------
(* _guess_windows_ver, utils.c:798-840 *)

\* Two variants of the switch below that differ from the source in one
\* place each: without the test of the record size, and without the test of
\* the junk flag.
GuessInfo2_NoSizeCheck(m) ==
    CASE m.version = "VERSION_WIN95" -> "OS_GUESS_95"
      [] m.version = "VERSION_WIN98" -> "OS_GUESS_98"
      [] m.version = "VERSION_NT4"   -> "OS_GUESS_NT4"
      [] m.version = "VERSION_ME_03" ->
            IF Len(m.records) = 0 THEN "OS_GUESS_2K_03"
            ELSE IF m.fill_junk THEN "OS_GUESS_2K" ELSE "OS_GUESS_XP_03"
      [] OTHER -> IF G_DISABLE_ASSERT THEN "OS_GUESS_UNKNOWN" ELSE ABORT

GuessInfo2_IgnoreJunk(m) ==
    CASE m.version = "VERSION_WIN95" -> "OS_GUESS_95"
      [] m.version = "VERSION_WIN98" -> "OS_GUESS_98"
      [] m.version = "VERSION_NT4"   -> "OS_GUESS_NT4"
      [] m.version = "VERSION_ME_03" ->
            IF m.recordsize = LEGACY_RECORD_SIZE THEN "OS_GUESS_ME"
            ELSE IF Len(m.records) = 0 THEN "OS_GUESS_2K_03"
            ELSE "OS_GUESS_XP_03"
      [] OTHER -> IF G_DISABLE_ASSERT THEN "OS_GUESS_UNKNOWN" ELSE ABORT

\* The switch on meta->version of an INFO2 file, utils.c:817-839
GuessInfo2(m) ==
    CASE m.version = "VERSION_WIN95" -> "OS_GUESS_95"
      [] m.version = "VERSION_WIN98" -> "OS_GUESS_98"
      [] m.version = "VERSION_NT4"   -> "OS_GUESS_NT4"
      [] m.version = "VERSION_ME_03" ->
            IF m.recordsize = LEGACY_RECORD_SIZE THEN "OS_GUESS_ME"
            ELSE IF Len(m.records) = 0 THEN "OS_GUESS_2K_03"
            ELSE IF m.fill_junk THEN "OS_GUESS_2K" ELSE "OS_GUESS_XP_03"
      \* default: g_assert_not_reached(); then `return OS_GUESS_UNKNOWN`
      [] OTHER -> IF G_DISABLE_ASSERT THEN "OS_GUESS_UNKNOWN" ELSE ABORT

\* A variant of the switch below that also reads the record size.
GuessDir_BySize(m) ==
    CASE m.version = "VERSION_VISTA" -> "OS_GUESS_VISTA"
      [] m.version = "VERSION_WIN10" -> "OS_GUESS_10"
      [] OTHER -> IF m.recordsize = 0 THEN "OS_GUESS_UNKNOWN"
                  ELSE "OS_GUESS_VISTA"

\* The switch on meta->version of a $Recycle.bin folder, utils.c:801-813
GuessDir(m) ==
    CASE m.version = "VERSION_VISTA" -> "OS_GUESS_VISTA"
      [] m.version = "VERSION_WIN10" -> "OS_GUESS_10"
      [] OTHER -> "OS_GUESS_UNKNOWN"

\* A variant that reads total_entry in place of the junk flag.
_guess_windows_ver_ByTotal(m) ==
    IF m.type = "RECYCLE_BIN_TYPE_DIR" THEN GuessDir(m)
    ELSE GuessInfo2([ m EXCEPT !.fill_junk = m.total_entry = 0 ])

_guess_windows_ver(m) ==
    IF m.type = "RECYCLE_BIN_TYPE_DIR" THEN GuessDir(m) ELSE GuessInfo2(m)

-----------------------------------------------------------------------------
(* Errors *)

Err(domain, code, message) ==
    [ domain |-> domain, code |-> code, message |-> message ]

\* g_error_matches, on an error that is set
g_error_matches(err, domain, code) ==
    err.domain = domain /\ err.code = code

\* A GError pointer that is NULL.
NoError == Err(NULL, NULL, NULL)

\* g_set_error (error, ...): an error that is already set is kept (glib
\* warns and leaves it).
g_set_error(old, new) ==
    IF old = NoError THEN new ELSE old

\* What conv_path_to_utf8_with_tmpl leaves in record->error on failure.
ConvPathError ==
    Err("R2_REC_ERROR", "R2_REC_ERROR_CONV_PATH",
        "Path contains character(s) that could not be interpreted")

\* What the $Recycle.bin reader leaves in record->error while decoding.
DubiousPathError ==
    Err("R2_REC_ERROR", "R2_REC_ERROR_DUBIOUS_PATH",
        "Ignored dubious file path")

-----------------------------------------------------------------------------
(* Text conversion (utils-conv.c), modelled on code units *)

\* A GString pointer that is NULL, and a NULL returned instead of text.
NoPath == << >>
NoText == << >>

\* bytes of "C:\" followed by 0x80, which CP1252 maps to U+20AC
LegacyGood == << 67, 58, 92, 128 >>
\* ... followed by 0x81, which CP1252 leaves undefined
LegacyBad == << 67, 58, 92, 129 >>
\* UTF-16 code units of "C:\" followed by U+00E9
UniGood == << 67, 58, 92, 233 >>
\* ... followed by an unpaired high surrogate
UniBad == << 67, 58, 92, 55296 >>

\* The code point of a byte in a code page, or -1 when it has none.
DecodeByte(enc, b) ==
    IF b < 128 THEN b
    ELSE IF enc = "CP1252" /\ b = 128 THEN 8364
    ELSE -1

\* The code point of a UTF-16 code unit of the samples, -1 for a surrogate
\* (no sample holds a surrogate pair).
DecodeUnit(u) ==
    IF u >= 55296 /\ u <= 57343 THEN -1 ELSE u

\* g_convert of a whole path: the text, or NoText on an illegal sequence.
Decode(src, enc) ==
    LET cp == [ i \in 1..Len(src) |->
                  IF enc = NULL THEN DecodeUnit(src[i])
                  ELSE DecodeByte(enc, src[i]) ]
    IN  IF \E i \in 1..Len(src) : cp[i] = -1 THEN NoText ELSE cp

\* json_escape: a backslash or a double quote gets a backslash before it.
RECURSIVE json_escape(_)
json_escape(s) ==
    IF s = << >> THEN << >>
    ELSE IF Head(s) \in { 34, 92 }
         THEN << 92, Head(s) >> \o json_escape(Tail(s))
         ELSE << Head(s) >> \o json_escape(Tail(s))

\* conv_path_to_utf8_with_tmpl (src, from_enc, format, func, &error):
\* the text returned (NoText on failure) and the value left in *error.
conv_path_to_utf8_with_tmpl(src, from_enc, func, err) ==
    IF src = NoPath
    THEN [ text |-> NoText, error |-> err ]
    ELSE LET t == Decode(src, from_enc)
         IN  IF t = NoText
             THEN [ text |-> NoText,
                    error |-> g_set_error(err, ConvPathError) ]
             ELSE [ text |-> IF func = "json_escape" THEN json_escape(t) ELSE t,
                    error |-> err ]

-----------------------------------------------------------------------------
(* 64-bit sizes.  A uint64_t is kept as its four 16-bit limbs, the most    *)
(* significant first, so that no number of the model leaves the range of   *)
(* the checker's integers.                                                 *)

UInt64(a, b, c, d) == << a, b, c, d >>

\* G_MAXUINT64, the mark of a faulty size, utils.c:1102
G_MAXUINT64 == UInt64(65535, 65535, 65535, 65535)

U64Zero == UInt64(0, 0, 0, 0)

\* Quotient and remainder of a limb sequence divided by 10 (long division).
RECURSIVE DivMod10(_, _)
DivMod10(limbs, carry) ==
    IF limbs = << >> THEN [ quot |-> << >>, rem |-> carry ]
    ELSE LET cur  == carry * 65536 + Head(limbs)
             rest == DivMod10(Tail(limbs), cur % 10)
         IN  [ quot |-> << cur \div 10 >> \o rest.quot, rem |-> rest.rem ]

\* The decimal digits of a number that is not zero, as characters.
RECURSIVE Digits(_)
Digits(n) ==
    IF n = U64Zero THEN << >>
    ELSE LET r == DivMod10(n, 0)
         IN  Digits(r.quot) \o << 48 + r.rem >>

\* printf ("%" PRIu64, n): the unsigned decimal form
PRIu64(n) == IF n = U64Zero THEN << 48 >> ELSE Digits(n)

\* "-1"
MinusOne == << 45, 49 >>

Reverse(q) == [ i \in 1..Len(q) |-> q[Len(q) + 1 - i] ]

\* limbs (the least significant first) times 10 plus carry
RECURSIVE MulAdd10(_, _)
MulAdd10(limbs, carry) ==
    IF limbs = << >> THEN << >>
    ELSE LET v == Head(limbs) * 10 + carry
         IN  << v % 65536 >> \o MulAdd10(Tail(limbs), v \div 65536)

\* The number a string of decimal digits denotes, read digit by digit into
\* five limbs, the least significant first.
RECURSIVE DecimalValue(_)
DecimalValue(chars) ==
    IF chars = << >> THEN << 0, 0, 0, 0, 0 >>
    ELSE MulAdd10(DecimalValue(SubSeq(chars, 1, Len(chars) - 1)),
                  chars[Len(chars)] - 48)

\* The 64-bit pattern of a decimal literal of the source.
Int64Of(chars) == Reverse(SubSeq(DecimalValue(chars), 1, 4))

\* Two's complement: the sign bit
IsNeg(x) == x[1] >= 32768

\* a - b - borrow and a + b + carry on limbs, the least significant first,
\* modulo 2^(16 * Len(a))
RECURSIVE SubLimbs(_, _, _)
SubLimbs(a, b, borrow) ==
    IF a = << >> THEN << >>
    ELSE LET v == Head(a) - Head(b) - borrow
         IN  << v % 65536 >>
             \o SubLimbs(Tail(a), Tail(b), IF v < 0 THEN 1 ELSE 0)

RECURSIVE AddLimbs(_, _, _)
AddLimbs(a, b, carry) ==
    IF a = << >> THEN << >>
    ELSE LET v == Head(a) + Head(b) + carry
         IN  << v % 65536 >> \o AddLimbs(Tail(a), Tail(b), v \div 65536)

\* What the machine's subtraction, addition and negation leave in a 64-bit
\* register.
Sub64(a, b) == Reverse(SubLimbs(Reverse(a), Reverse(b), 0))
Add64(a, b) == Reverse(AddLimbs(Reverse(a), Reverse(b), 0))
Neg64(a) == Sub64(U64Zero, a)

\* a <= b, both read as unsigned numbers
RECURSIVE LeqU(_, _)
LeqU(a, b) ==
    IF a = << >> THEN TRUE
    ELSE IF Head(a) # Head(b) THEN Head(a) < Head(b)
    ELSE LeqU(Tail(a), Tail(b))

\* An unsigned limb sequence divided by k (k < 32768), rounded down.
RECURSIVE DivSmall(_, _, _)
DivSmall(limbs, k, carry) ==
    IF limbs = << >> THEN << >>
    ELSE LET cur == carry * 65536 + Head(limbs)
         IN  << cur \div k >> \o DivSmall(Tail(limbs), k, cur % k)

\* The signed division of C by 10000000 = 10000 * 1000, which rounds
\* towards zero.
DivTenMillion(x) ==
    LET mag  == IF IsNeg(x) THEN Neg64(x) ELSE x
        quot == DivSmall(DivSmall(mag, 10000, 0), 1000, 0)
    IN  IF IsNeg(x) THEN Neg64(quot) ELSE quot

\* Code pages a user may name with -l, and what enc_is_ascii_compatible
\* finds for each: "ok", or the G_CONVERT_ERROR code of the failure.
Encodings == { "CP1252", "UTF-16LE", "XYZ" }

enc_is_ascii_compatible(enc) ==
    CASE enc = "CP1252"   -> "ok"
      [] enc = "UTF-16LE" -> "G_CONVERT_ERROR_ILLEGAL_SEQUENCE"
      [] OTHER            -> "G_CONVERT_ERROR_NO_CONVERSION"

-----------------------------------------------------------------------------
(* win_filetime_to_gdatetime, utils.c:533-545 *)

\* 116444736000000000LL, utils.c:539
FILETIME_EPOCH ==
    Int64Of(<< 49, 49, 54, 52, 52, 52, 55, 51, 54, 48, 48, 48, 48, 48, 48, 48,
               48, 48 >>)

\* A GDateTime * that is NULL, and one that holds an instant given in
\* seconds from the Unix epoch.
NoDateTime == [ valid |-> FALSE, unix |-> U64Zero ]
DateTime(t) == [ valid |-> TRUE, unix |-> t ]

\* 62135596800: the seconds from 0001-01-01 to the Unix epoch, and
\* 315537897600: the seconds of the 3652059 days GDateTime can hold.
UNIX_EPOCH_START == Int64Of(<< 54, 50, 49, 51, 53, 53, 57, 54, 56, 48, 48 >>)
GDateTimeSpan ==
    Int64Of(<< 51, 49, 53, 53, 51, 55, 56, 57, 55, 54, 48, 48 >>)

\* g_date_time_new_from_unix_utc (glib): NULL for an instant outside the
\* years 1 to 9999.  Every t this module hands over is small enough for the
\* sum not to leave 64 bits.
g_date_time_new_from_unix_utc(t) ==
    LET since_year_1 == Add64(t, UNIX_EPOCH_START)
    IN  IF ~ IsNeg(since_year_1) /\ LeqU(since_year_1, GDateTimeSpan)
        THEN DateTime(t) ELSE NoDateTime

\* The subtraction of utils.c:539 leaves the range of int64_t: the minuend
\* is negative and the difference is not.
SubOverflows(ticks) == IsNeg(ticks) /\ ~ IsNeg(Sub64(ticks, FILETIME_EPOCH))

\* t of utils.c:539 when the subtraction wraps around or does not overflow
FileTimeToUnix(ticks) == DivTenMillion(Sub64(ticks, FILETIME_EPOCH))

\* One call.  Signed overflow is undefined in C: the build may wrap around
\* or trap.
win_filetime_to_gdatetime ==
    /\ pc = "filetime"
    /\ \E overflow \in { "wraps", "traps" } :
        IF SubOverflows(win_filetime) /\ overflow = "traps"
        THEN /\ pc' = "aborted"
             /\ UNCHANGED deltime
        ELSE /\ pc' = "converted"
             /\ deltime' =
                  g_date_time_new_from_unix_utc(FileTimeToUnix(win_filetime))
    /\ UNCHANGED << output_format, no_heading, use_localtime, live_mode, delim,
                    output_loc, fileargs, allidxfiles, isolated_index,
                    legacy_encoding, meta, seen, error, nargs, idx, parsed,
                    win_filetime, checked, out, exit_code,
                    G_DISABLE_ASSERT >>

-----------------------------------------------------------------------------
(* State after the set-up of rifiuti_init, utils.c:685-705 and 562 *)

\* g_malloc0 leaves the number 0 in meta->version; no code reads it before
\* the reader of the index files has set it.
VERSION_ZERO == "VERSION_ZERO"

NewMeta(type) ==
    [ type            |-> type,
      filename        |-> NULL,
      version         |-> VERSION_ZERO,
      recordsize      |-> 0,
      total_entry     |-> 0,
      fill_junk       |-> FALSE,
      records         |-> << >>,
      invalid_records |-> { } ]

NoSeen == [ delim |-> FALSE, output |-> FALSE, encoding |-> FALSE ]

\* No call of _check_file_args yet
NoCall == [ called |-> FALSE ]

InitGlobals ==
    /\ output_format = "FORMAT_UNKNOWN"
    /\ no_heading = FALSE
    /\ use_localtime = FALSE
    /\ live_mode = FALSE
    /\ delim = NULL
    /\ output_loc = NULL
    /\ fileargs = << >>
    /\ allidxfiles = << >>
    /\ isolated_index = FALSE
    /\ legacy_encoding = NULL
    /\ seen = NoSeen
    /\ error = NoError
    /\ nargs = 0
    /\ idx = 0
    /\ parsed = << >>
    /\ out = << >>
    /\ exit_code = NULL

Init ==
    /\ InitGlobals
    /\ win_filetime = U64Zero
    /\ deltime = NoDateTime
    /\ checked = NoCall
    /\ pc = "parse"
    /\ G_DISABLE_ASSERT = FALSE
    /\ \E type \in RbinTypes : meta = NewMeta(type)

-----------------------------------------------------------------------------
(* Option callbacks, utils.c:175-428.  g_option_context_parse calls them in  *)
(* the order of the command line and stops at the first that returns FALSE. *)

OptionError(code, message) == Err("G_OPTION_ERROR", code, message)

\* One argument consumed: parsing goes on after TRUE; after FALSE
\* g_option_context_parse fails and rifiuti_init returns false (utils.c:651).
ParseStep(ok, err) ==
    /\ nargs' = nargs + 1
    /\ pc' = IF ok THEN "parse" ELSE "cleanup"
    /\ error' = IF ok THEN error ELSE err

CanParse == pc = "parse" /\ nargs < MaxArgs

\* A variant of the operator below that lets the last request win.
_set_out_format_LastWins(desired_format) ==
    [ ok |-> TRUE, fmt |-> desired_format, err |-> NoError ]

\* _set_out_format, utils.c:175-195: the value returned, the new
\* output_format and the error set.
_set_out_format(desired_format) ==
    IF output_format = desired_format
    THEN [ ok |-> TRUE, fmt |-> output_format, err |-> NoError ]
    ELSE IF output_format = "FORMAT_UNKNOWN"
    THEN [ ok |-> TRUE, fmt |-> desired_format, err |-> NoError ]
    ELSE [ ok |-> FALSE, fmt |-> output_format,
           err |-> OptionError("G_OPTION_ERROR_FAILED",
                               "Output was already set") ]

FormatNames == { "text", "tsv", "csv", "xml", "json", "yaml" }

\* The format a value of -f / --format asks for, utils.c:206-215; NULL for
\* a value that names no format.
DesiredFormat(format) ==
    CASE format \in { "text", "tsv", "csv" } -> "FORMAT_TEXT"
      [] format = "xml"  -> "FORMAT_XML"
      [] format = "json" -> "FORMAT_JSON"
      [] OTHER -> NULL

\* _set_opt_format, utils.c:198-222, called with one value
OptFormat(format) ==
    /\ CanParse
    /\ LET r == IF DesiredFormat(format) # NULL
                THEN _set_out_format(DesiredFormat(format))
                ELSE [ ok |-> FALSE, fmt |-> output_format,
                       err |-> OptionError("G_OPTION_ERROR_BAD_VALUE",
                                           "Illegal output format") ]
       IN  /\ output_format' = r.fmt
           /\ ParseStep(r.ok, r.err)
    /\ UNCHANGED << no_heading, use_localtime, live_mode, delim, output_loc,
                    fileargs, allidxfiles, isolated_index, legacy_encoding,
                    meta, seen, idx, out, exit_code, G_DISABLE_ASSERT, parsed,
                    win_filetime, deltime, checked >>

\* _set_opt_format, utils.c:198-222
_set_opt_format == \E format \in FormatNames : OptFormat(format)

\* _set_opt_noheading, utils.c:229-242
_set_opt_noheading ==
    /\ CanParse
    /\ no_heading' = TRUE
    /\ LET r == _set_out_format("FORMAT_TEXT")
       IN  /\ output_format' = r.fmt
           /\ ParseStep(r.ok, r.err)
    /\ UNCHANGED << use_localtime, live_mode, delim, output_loc, fileargs,
                    allidxfiles, isolated_index, legacy_encoding, meta, seen,
                    idx, out, exit_code, G_DISABLE_ASSERT, parsed,
                    win_filetime, deltime, checked >>

\* filter_escapes leaves a delimiter without backslash escapes as it is.
Delims == { "", "," }

\* _set_opt_delim, utils.c:249-271
_set_opt_delim ==
    /\ CanParse
    /\ \E value \in Delims :
        IF seen.delim
        THEN /\ ParseStep(FALSE,
                    OptionError("G_OPTION_ERROR_FAILED",
                                "Multiple delimiter options disallowed."))
             /\ UNCHANGED << seen, delim, output_format >>
        ELSE LET r == _set_out_format("FORMAT_TEXT")
             IN  /\ seen' = [ seen EXCEPT !.delim = TRUE ]
                 /\ delim' = value
                 /\ output_format' = r.fmt
                 /\ ParseStep(r.ok, r.err)
    /\ UNCHANGED << no_heading, use_localtime, live_mode, output_loc, fileargs,
                    allidxfiles, isolated_index, legacy_encoding, meta, idx,
                    out, exit_code, G_DISABLE_ASSERT, parsed, win_filetime,
                    deltime, checked >>

\* Output file names: empty, one that exists already, one that is free.
OutputNames == { "", "old.txt", "new.txt" }

g_file_test_exists(name) == name = "old.txt"

\* A variant of the action below without the `seen` test: a later output
\* destination replaces the earlier one.
_set_output_path_LastWins ==
    /\ CanParse
    /\ \E value \in OutputNames :
        /\ seen' = [ seen EXCEPT !.output = TRUE ]
        /\ IF value = "" \/ g_file_test_exists(value)
           THEN /\ ParseStep(FALSE,
                       OptionError("G_OPTION_ERROR_BAD_VALUE",
                           IF value = ""
                           THEN "Empty output filename disallowed."
                           ELSE "Output destinations already exists."))
                /\ UNCHANGED output_loc
           ELSE /\ output_loc' = value
                /\ ParseStep(TRUE, NoError)
    /\ UNCHANGED << output_format, no_heading, use_localtime, live_mode, delim,
                    fileargs, allidxfiles, isolated_index, legacy_encoding,
                    meta, idx, out, exit_code, G_DISABLE_ASSERT, parsed,
                    win_filetime, deltime, checked >>

\* _set_output_path, utils.c:279-313
_set_output_path ==
    /\ CanParse
    /\ \E value \in OutputNames :
        IF seen.output
        THEN /\ ParseStep(FALSE,
                    OptionError("G_OPTION_ERROR_FAILED",
                                "Multiple output destinations disallowed."))
             /\ UNCHANGED << seen, output_loc >>
        ELSE /\ seen' = [ seen EXCEPT !.output = TRUE ]
             /\ IF value = "" \/ g_file_test_exists(value)
                THEN /\ ParseStep(FALSE,
                            OptionError("G_OPTION_ERROR_BAD_VALUE",
                                IF value = ""
                                THEN "Empty output filename disallowed."
                                ELSE "Output destinations already exists."))
                     /\ UNCHANGED output_loc
                ELSE /\ output_loc' = value
                     /\ ParseStep(TRUE, NoError)
    /\ UNCHANGED << output_format, no_heading, use_localtime, live_mode, delim,
                    fileargs, allidxfiles, isolated_index, legacy_encoding,
                    meta, idx, out, exit_code, G_DISABLE_ASSERT, parsed,
                    win_filetime, deltime, checked >>

\* _option_deprecated, utils.c:320-334, called for -x / --xml (the only
\* entry of out_options that names it, utils.c:113-117)
_option_deprecated ==
    /\ CanParse
    /\ LET r == _set_out_format("FORMAT_XML")
       IN  /\ output_format' = r.fmt
           /\ ParseStep(r.ok, r.err)
    /\ UNCHANGED << no_heading, use_localtime, live_mode, delim, output_loc,
                    fileargs, allidxfiles, isolated_index, legacy_encoding,
                    meta, seen, idx, out, exit_code, G_DISABLE_ASSERT, parsed,
                    win_filetime, deltime, checked >>

\* The error of a failed check, utils.c:377-395.  Every failure
\* enc_is_ascii_compatible reports is one of the two kinds handled there.
EncodingError(conv_err) ==
    OptionError("G_OPTION_ERROR_BAD_VALUE",
        IF conv_err = "G_CONVERT_ERROR_NO_CONVERSION"
        THEN "encoding is not supported by glib library on this system"
        ELSE "is incompatible to any Windows code page.")

\* A variant of the operator below that assigns legacy_encoding before it
\* looks at the outcome of the check.
CheckEncoding_SetFirst(enc) ==
    LET conv_err == enc_is_ascii_compatible(enc)
    IN  [ ret |-> conv_err = "ok", legacy_encoding |-> enc,
          err |-> IF conv_err = "ok" THEN NoError
                  ELSE EncodingError(conv_err) ]

\* What _check_legacy_encoding does with a code page that was not seen
\* before and is not empty, utils.c:369-400: the value returned, the new
\* legacy_encoding and the error set.
CheckEncoding(enc) ==
    LET conv_err == enc_is_ascii_compatible(enc)
    IN  IF conv_err = "ok"
        THEN [ ret |-> TRUE, legacy_encoding |-> enc, err |-> NoError ]
        ELSE [ ret |-> FALSE, legacy_encoding |-> legacy_encoding,
               err |-> EncodingError(conv_err) ]

\* _check_legacy_encoding, utils.c:342-401; the option exists for the INFO2
\* reader only (utils.c:578-580)
_check_legacy_encoding ==
    /\ CanParse
    /\ meta.type = "RECYCLE_BIN_TYPE_FILE"
    /\ \E enc \in Encodings \cup { "" } :
        IF seen.encoding
        THEN /\ ParseStep(FALSE,
                    OptionError("G_OPTION_ERROR_FAILED",
                                "Multiple encoding options disallowed."))
             /\ UNCHANGED << seen, legacy_encoding >>
        ELSE /\ seen' = [ seen EXCEPT !.encoding = TRUE ]
             /\ IF enc = ""
                THEN /\ ParseStep(FALSE,
                            OptionError("G_OPTION_ERROR_BAD_VALUE",
                                        "Empty encoding option disallowed."))
                     /\ UNCHANGED legacy_encoding
                ELSE LET r == CheckEncoding(enc)
                     IN  /\ legacy_encoding' = r.legacy_encoding
                         /\ ParseStep(r.ret, r.err)
    /\ UNCHANGED << output_format, no_heading, use_localtime, live_mode, delim,
                    output_loc, fileargs, allidxfiles, isolated_index, meta,
                    idx, out, exit_code, G_DISABLE_ASSERT, parsed,
                    win_filetime, deltime, checked >>

\* _show_ver_and_exit, utils.c:407-428; glib's own --help ends the process
\* the same way, and _opt_ctxt_parse asks for --help-all when the command
\* line holds no argument at all (utils.c:632-635).
_show_ver_and_exit ==
    /\ CanParse
    /\ pc' = "exited"
    /\ exit_code' = "EXIT_OK"
    /\ nargs' = nargs + 1
    /\ UNCHANGED << output_format, no_heading, use_localtime, live_mode, delim,
                    output_loc, fileargs, allidxfiles, isolated_index,
                    legacy_encoding, meta, seen, error, idx, out,
                    G_DISABLE_ASSERT, parsed, win_filetime, deltime, checked >>

\* -z / --localtime, a G_OPTION_ARG_NONE entry, utils.c:133-138
OptLocaltime ==
    /\ CanParse
    /\ use_localtime' = TRUE
    /\ ParseStep(TRUE, NoError)
    /\ UNCHANGED << output_format, no_heading, live_mode, delim, output_loc,
                    fileargs, allidxfiles, isolated_index, legacy_encoding,
                    meta, seen, idx, out, exit_code, G_DISABLE_ASSERT, parsed,
                    win_filetime, deltime, checked >>

\* --live, a G_OPTION_ARG_NONE entry of the $Recycle.bin reader,
\* utils.c:164-171 and 581-584
OptLive ==
    /\ CanParse
    /\ meta.type = "RECYCLE_BIN_TYPE_DIR"
    /\ live_mode' = TRUE
    /\ ParseStep(TRUE, NoError)
    /\ UNCHANGED << output_format, no_heading, use_localtime, delim,
                    output_loc, fileargs, allidxfiles, isolated_index,
                    legacy_encoding, meta, seen, idx, out, exit_code,
                    G_DISABLE_ASSERT, parsed, win_filetime, deltime, checked >>

\* Paths a user may name.
PathNames == { "a", "b" }

\* A file argument, collected in fileargs (G_OPTION_REMAINING, utils.c:144-148)
ArgFile ==
    /\ CanParse
    /\ \E path \in PathNames : fileargs' = Append(fileargs, << path >>)
    /\ ParseStep(TRUE, NoError)
    /\ UNCHANGED << output_format, no_heading, use_localtime, live_mode, delim,
                    output_loc, allidxfiles, isolated_index, legacy_encoding,
                    meta, seen, idx, out, exit_code, G_DISABLE_ASSERT, parsed,
                    win_filetime, deltime, checked >>

\* An option no group of this reader has (-l for $Recycle.bin, --live for
\* INFO2, a misspelt one): g_option_context_parse fails by itself.
OptUnknown ==
    /\ CanParse
    /\ ParseStep(FALSE, OptionError("G_OPTION_ERROR_UNKNOWN_OPTION",
                                    "Unknown option"))
    /\ UNCHANGED << output_format, no_heading, use_localtime, live_mode, delim,
                    output_loc, fileargs, allidxfiles, isolated_index,
                    legacy_encoding, meta, seen, idx, out, exit_code,
                    G_DISABLE_ASSERT, parsed, win_filetime, deltime, checked >>

\* No argument at all: _opt_ctxt_parse adds --help-all, utils.c:632-635,
\* and glib prints the help and exits.
HelpAll ==
    /\ pc = "parse"
    /\ nargs = 0
    /\ pc' = "exited"
    /\ exit_code' = "EXIT_OK"
    /\ UNCHANGED << output_format, no_heading, use_localtime, live_mode, delim,
                    output_loc, fileargs, allidxfiles, isolated_index,
                    legacy_encoding, meta, seen, error, nargs, idx, out,
                    G_DISABLE_ASSERT, parsed, win_filetime, deltime, checked >>

-----------------------------------------------------------------------------
(* The file arguments, utils.c:431-499 and 718-910 *)

\* What the file system answers about one path: what the path is, whether
\* the folder can be opened, how many entries match $I??????[.*], and whether
\* desktop.ini (of the folder, or of the parent of a file) names the
\* recycle bin.
PathKinds == { "noent", "dir", "regular", "other" }

FsAnswer(kind, can_open, nfiles, desktop_ini) ==
    [ kind |-> kind, can_open |-> can_open, nfiles |-> nfiles,
      desktop_ini |-> desktop_ini ]

\* One answer for each way the code can tell two paths apart.
FsAnswers ==
    { FsAnswer("noent", FALSE, 0, FALSE), FsAnswer("other", FALSE, 0, FALSE),
      FsAnswer("dir", FALSE, 0, FALSE) }
    \cup { FsAnswer("regular", FALSE, 0, ini) : ini \in BOOLEAN }
    \cup { FsAnswer("dir", TRUE, n, ini) : n \in 0..MaxFiles, ini \in BOOLEAN }

\* The answer about a path nothing asks about.
NoAnswer == FsAnswer("noent", FALSE, 0, FALSE)

FileError(code, message) == Err("G_FILE_ERROR", code, message)

\* _populate_index_file_list, utils.c:718-762: success, and the list
_populate_index_file_list(list, path, fs) ==
    IF ~ fs.can_open
    THEN [ ok |-> FALSE, list |-> list ]
    ELSE [ ok |-> TRUE,
           list |-> list \o [ i \in 1..fs.nfiles |-> path \o << i >> ] ]

\* _found_desktop_ini, utils.c:771-790
_found_desktop_ini(fs) == fs.desktop_ini

\* _check_file_args, utils.c:856-910: the value returned, the list, the
\* flag behind isolated_index (iso; has_iso: the pointer is not NULL) and
\* the error set.
_check_file_args(path, list, type, has_iso, iso, fs) ==
    IF fs.kind = "noent"
    THEN [ ok |-> FALSE, list |-> list, iso |-> iso,
           err |-> FileError("G_FILE_ERROR_NOENT", "does not exist.") ]
    ELSE IF type = "RECYCLE_BIN_TYPE_DIR" /\ fs.kind = "dir"
    THEN LET p == _populate_index_file_list(list, path, fs)
         IN  IF ~ p.ok
             THEN [ ok |-> FALSE, list |-> p.list, iso |-> iso,
                    err |-> FileError("G_FILE_ERROR_ACCES",
                                      "Error opening directory") ]
             ELSE IF Len(p.list) = 0 /\ ~ _found_desktop_ini(fs)
             THEN [ ok |-> FALSE, list |-> p.list, iso |-> iso,
                    err |-> FileError("G_FILE_ERROR_NOENT",
                               "No files with name pattern are found") ]
             ELSE [ ok |-> TRUE, list |-> p.list, iso |-> iso,
                    err |-> NoError ]
    ELSE IF fs.kind = "regular"
    THEN [ ok |-> TRUE, list |-> Append(list, path),
           iso |-> IF has_iso /\ type = "RECYCLE_BIN_TYPE_DIR"
                   THEN ~ _found_desktop_ini(fs) ELSE iso,
           err |-> NoError ]
    ELSE [ ok |-> FALSE, list |-> list, iso |-> iso,
           err |-> FileError("G_FILE_ERROR_FAILED",
                             IF type = "RECYCLE_BIN_TYPE_DIR"
                             THEN "is not a normal file or directory."
                             ELSE "is not a normal file.") ]

\* Recycle bin folders enumerate_drive_bins can find on a live system.
BinDirs == << << "C:" >>, << "D:" >> >>

\* The loop of utils.c:487-493 over bindirs[from..n]: errors are ignored,
\* the list keeps what each call appended.
RECURSIVE CheckBinDirs(_, _, _, _, _)
CheckBinDirs(list, type, from, n, answers) ==
    IF from > n THEN list
    ELSE CheckBinDirs(
            _check_file_args(BinDirs[from], list, type, FALSE, FALSE,
                             answers[from]).list,
            type, from + 1, n, answers)

\* A variant of the operator below that looks at the number of file
\* arguments only and returns TRUE whatever _check_file_args returns.
_fileargs_handler_CountOnly(fs, bins, answers) ==
    LET fileargs_len == Len(fileargs)
        same == [ ok |-> FALSE, filename |-> meta.filename,
                  list |-> allidxfiles, iso |-> isolated_index,
                  err |-> OptionError("G_OPTION_ERROR_FAILED",
                            "Live probation must not be used with files") ]
    IN  IF ~ live_mode
        THEN IF fileargs_len # 1
             THEN [ same EXCEPT !.err =
                      OptionError("G_OPTION_ERROR_FAILED",
                                  "Must specify exactly one file or folder") ]
             ELSE LET r == _check_file_args(fileargs[1], allidxfiles,
                               meta.type, TRUE, isolated_index, fs)
                  IN  [ ok |-> TRUE, filename |-> fileargs[1][1],
                        list |-> r.list, iso |-> r.iso, err |-> NoError ]
        ELSE IF fileargs_len # 0
        THEN same
        ELSE [ ok |-> TRUE, filename |-> "(current system)",
               list |-> CheckBinDirs(allidxfiles, meta.type, 1,
                                     IF bins < 0 THEN 0 ELSE bins, answers),
               iso |-> isolated_index, err |-> NoError ]

\* _fileargs_handler, utils.c:436-499: the value returned, meta->filename,
\* allidxfiles, isolated_index and the error.  fs: the answers about the
\* file argument; bins: NULL from enumerate_drive_bins (-1) or the number of
\* folders it found; answers: the answers about each.
_fileargs_handler(fs, bins, answers) ==
    LET fileargs_len == Len(fileargs)
        same == [ ok |-> FALSE, filename |-> meta.filename,
                  list |-> allidxfiles, iso |-> isolated_index,
                  err |-> OptionError("G_OPTION_ERROR_FAILED",
                            "Live probation must not be used with files") ]
    IN  IF ~ live_mode
        THEN IF fileargs_len # 1
             THEN [ same EXCEPT !.err =
                      OptionError("G_OPTION_ERROR_FAILED",
                                  "Must specify exactly one file or folder") ]
             ELSE LET r == _check_file_args(fileargs[1], allidxfiles,
                               meta.type, TRUE, isolated_index, fs)
                  IN  [ ok |-> r.ok, filename |-> fileargs[1][1],
                        list |-> r.list, iso |-> r.iso, err |-> r.err ]
        ELSE IF fileargs_len # 0
        THEN same
        ELSE IF bins < 0
        THEN [ same EXCEPT !.filename = "(current system)",
                 !.err = Err("R2_FATAL_ERROR",
                             "R2_FATAL_ERROR_LIVE_UNSUPPORTED",
                             "Live probation unsupported under this system") ]
        ELSE [ ok |-> TRUE, filename |-> "(current system)",
               list |-> CheckBinDirs(allidxfiles, meta.type, 1, bins, answers),
               iso |-> isolated_index, err |-> NoError ]

\* A variant of the operator below that gives the delimiter its default
\* and leaves the format alone.
_set_def_output_opts_DelimOnly ==
    [ delim |-> IF delim = NULL THEN "\t" ELSE delim,
      output_format |-> output_format ]

\* _set_def_output_opts, utils.c:506-525: delim and output_format
_set_def_output_opts ==
    [ delim |-> IF delim = NULL THEN "\t" ELSE delim,
      output_format |-> IF output_format = "FORMAT_UNKNOWN"
                        THEN "FORMAT_TEXT" ELSE output_format ]

\* The end of the command line: g_option_context_parse runs the post-parse
\* hook of the output group, then that of the main group (utils.c:591-602),
\* and _opt_ctxt_parse returns whether no error is set, utils.c:647-651.
\* rifiuti_init returns that value and main() goes on with the scan or
\* straight to rifiuti_cleanup.
ParseEnd ==
    /\ pc = "parse"
    /\ nargs >= 1
    /\ \E fs \in IF live_mode THEN { NoAnswer } ELSE FsAnswers,
          bins \in IF live_mode THEN -1..Len(BinDirs) ELSE { -1 } :
       \E answers \in [ 1..(IF bins < 0 THEN 0 ELSE bins) -> FsAnswers ] :
        LET d == _set_def_output_opts
            r == _fileargs_handler(fs, bins, answers)
        IN  /\ Len(r.list) <= MaxFiles
            /\ delim' = d.delim
            /\ output_format' = d.output_format
            /\ meta' = [ meta EXCEPT !.filename = r.filename ]
            /\ allidxfiles' = r.list
            /\ isolated_index' = r.iso
            /\ error' = IF r.ok THEN error ELSE r.err
            /\ pc' = IF r.ok THEN "scan" ELSE "cleanup"
    /\ idx' = 1
    /\ UNCHANGED << no_heading, use_localtime, live_mode, output_loc, fileargs,
                    legacy_encoding, seen, nargs, out, exit_code,
                    G_DISABLE_ASSERT, parsed, win_filetime, deltime, checked >>

-----------------------------------------------------------------------------
(* The scan: do_parse_records, utils.c:912-916, hands every file of        *)
(* allidxfiles to the reader's callback.  The callbacks (rifiuti.c,         *)
(* rifiuti-vista.c) are outside utils.c: an INFO2 file yields its header    *)
(* fields and its records, a $I file yields one record; bytes that give no  *)
(* record are entered in meta->invalid_records.                             *)

Rec(index_n, index_s, uni, legacy, filesize, err) ==
    [ index_n |-> index_n, index_s |-> index_s, raw_uni_path |-> uni,
      raw_legacy_path |-> legacy, filesize |-> filesize, error |-> err ]

\* The two raw paths and the size field of an INFO2 record of the given
\* size.
Info2Paths(recordsize) ==
    IF recordsize = LEGACY_RECORD_SIZE
    THEN { << NoPath, LegacyGood, UInt64(0, 0, 0, 4096) >> }
    ELSE { << UniGood, LegacyGood, U64Zero >>,
           << UniBad, LegacyGood, UInt64(0, 1, 0, 0) >>,
           << UniGood, LegacyBad, G_MAXUINT64 >> }

\* A $I file: its Unicode path, the error the reader may attach, and its
\* size field.
DirPaths ==
    { << UniGood, NoError, G_MAXUINT64 >>,
      << UniBad, NoError, UInt64(0, 0, 0, 4096) >>,
      << UniGood, DubiousPathError, U64Zero >> }

\* Header fields an INFO2 file can carry.
Info2Headers ==
    { [ version |-> "VERSION_ME_03", recordsize |-> 800, fill_junk |-> TRUE,
        total_entry |-> 0 ],
      [ version |-> "VERSION_ME_03", recordsize |-> 800, fill_junk |-> FALSE,
        total_entry |-> 5 ],
      [ version |-> "VERSION_WIN98", recordsize |-> LEGACY_RECORD_SIZE,
        fill_junk |-> FALSE, total_entry |-> 5 ] }

RECURSIVE SeqsUpTo(_, _)
SeqsUpTo(S, n) ==
    IF n = 0 THEN { << >> }
    ELSE LET shorter == SeqsUpTo(S, n - 1)
         IN  shorter \cup { Append(q, x) : q \in shorter, x \in S }

\* The callback on one INFO2 file.
ParseInfo2(m) ==
    UNION {
      { [ m EXCEPT
            !.version = h.version, !.recordsize = h.recordsize,
            !.fill_junk = h.fill_junk, !.total_entry = h.total_entry,
            !.records = [ i \in 1..Len(ps) |->
                            Rec(i, NULL, ps[i][1], ps[i][2], ps[i][3],
                                NoError) ],
            !.invalid_records = IF bad THEN { << "|", 20, 820 >> } ELSE { } ] :
          bad \in BOOLEAN,
          ps \in SeqsUpTo(Info2Paths(h.recordsize), MaxRecords) } :
      h \in Info2Headers }

\* The callback on one $I file.
ParseDirFile(m, file, first) ==
    { [ m EXCEPT !.invalid_records = @ \cup { file } ] }
    \cup
    { [ m EXCEPT
          !.version = IF first \/ @ = v THEN v ELSE "VERSION_INCONSISTENT",
          !.records = Append(@, Rec(0, file, p[1], NoPath, p[3], p[2])) ] :
        v \in { "VERSION_VISTA", "VERSION_WIN10" }, p \in DirPaths }

\* A variant of the action below that gives up the remaining files once
\* the callback has entered a file in invalid_records.
do_parse_records_StopOnFailure ==
    /\ pc = "scan"
    /\ idx <= Len(allidxfiles)
    /\ meta' \in IF meta.type = "RECYCLE_BIN_TYPE_FILE"
                 THEN ParseInfo2(meta)
                 ELSE ParseDirFile(meta, allidxfiles[idx], meta.records = << >>)
    /\ parsed' = Append(parsed, allidxfiles[idx])
    /\ idx' = IF meta'.invalid_records # meta.invalid_records
              THEN Len(allidxfiles) + 1 ELSE idx + 1
    /\ UNCHANGED << pc, output_format, no_heading, use_localtime, live_mode,
                    delim, output_loc, fileargs, allidxfiles, isolated_index,
                    legacy_encoding, seen, error, nargs, out, exit_code,
                    G_DISABLE_ASSERT, win_filetime, deltime, checked >>

\* One call of the callback by g_ptr_array_foreach, utils.c:915: func is
\* called with the next file of allidxfiles, whatever it did with the file
\* before.
do_parse_records ==
    /\ pc = "scan"
    /\ idx <= Len(allidxfiles)
    /\ meta' \in IF meta.type = "RECYCLE_BIN_TYPE_FILE"
                 THEN ParseInfo2(meta)
                 ELSE ParseDirFile(meta, allidxfiles[idx], meta.records = << >>)
    /\ parsed' = Append(parsed, allidxfiles[idx])
    /\ idx' = idx + 1
    /\ UNCHANGED << pc, output_format, no_heading, use_localtime, live_mode,
                    delim, output_loc, fileargs, allidxfiles, isolated_index,
                    legacy_encoding, seen, error, nargs, out, exit_code,
                    G_DISABLE_ASSERT, win_filetime, deltime, checked >>

\* After the last file main() either reports a source whose layout could
\* not be established (nothing was decoded) or goes on to dump_content; a
\* folder without index files has no version.
ScanEnd ==
    /\ pc = "scan"
    /\ idx > Len(allidxfiles)
    /\ \E fatal \in { NoError,
                      Err("R2_FATAL_ERROR", "R2_FATAL_ERROR_ILLEGAL_DATA",
                          "File is not a supported recycle bin index") } :
        /\ fatal # NoError =>
              /\ meta.records = << >>
              /\ meta.invalid_records = { }
              /\ allidxfiles # << >>
        /\ error' = fatal
        /\ pc' = IF fatal = NoError THEN "dump_begin" ELSE "cleanup"
    /\ meta' = IF allidxfiles = << >>
               THEN [ meta EXCEPT !.version = "VERSION_NOT_FOUND" ]
               ELSE meta
    /\ idx' = 0
    /\ UNCHANGED << output_format, no_heading, use_localtime, live_mode, delim,
                    output_loc, fileargs, allidxfiles, isolated_index,
                    legacy_encoding, seen, nargs, out, exit_code,
                    G_DISABLE_ASSERT, parsed, win_filetime, deltime, checked >>

-----------------------------------------------------------------------------
(* dump_content, utils.c:1261-1304, and the printers it calls *)

\* The line about the OS in the text header, utils.c:944-965.  product_name:
\* what windows_product_name() returns on a live system.
OsLine(m, product_name) ==
    IF live_mode
    THEN IF product_name # NULL THEN << "OS: ", product_name >>
         ELSE << "OS detection failed" >>
    ELSE LET g == _guess_windows_ver(m)
         IN  IF g = ABORT THEN << ABORT >>
             ELSE IF g = "OS_GUESS_UNKNOWN" THEN << "OS detection failed" >>
             ELSE << "OS Guess: ", os_strings[g] >>

\* _print_text_header, utils.c:923-1006
_print_text_header(m, product_name) ==
    [ kind |-> "header", fmt |-> "FORMAT_TEXT",
      path |-> m.filename,
      version |-> IF m.version = "VERSION_NOT_FOUND"
                  THEN "??? (empty folder)" ELSE m.version,
      ever_existed |-> IF m.type = "RECYCLE_BIN_TYPE_FILE" /\ m.total_entry # 0
                       THEN << m.total_entry >> ELSE << >>,
      os |-> OsLine(m, product_name),
      columns |-> << "Index", delim, "Deleted Time", delim, "Gone?", delim,
                     "Size", delim, "Path" >> ]

\* meta->version >= 0: the version was found and is no error, utils.c:1024
VersionFound(m) ==
    m.version \notin { "VERSION_NOT_FOUND", "VERSION_INCONSISTENT" }

\* _print_xml_header, utils.c:1013-1046, and _print_json_header,
\* utils.c:1053-1076
PrintMarkupHeader(m, format) ==
    [ kind |-> "header", fmt |-> format,
      path |-> m.filename,
      version |-> IF VersionFound(m) THEN m.version ELSE NULL,
      ever_existed |-> IF m.type = "RECYCLE_BIN_TYPE_FILE" /\ m.total_entry > 0
                       THEN << m.total_entry >> ELSE << >>,
      os |-> << >>, columns |-> << >> ]

\* The first part of dump_content, utils.c:1269-1295: the temporary file,
\* the choice of the printers and the header.  tmp_ok: get_tempfile
\* succeeds.
dump_content_begin ==
    /\ pc = "dump_begin"
    /\ \E tmp_ok \in BOOLEAN, product_name \in { NULL, "Windows 11" } :
        IF output_loc # NULL /\ ~ tmp_ok
        THEN /\ error' = Err("R2_FATAL_ERROR", "R2_FATAL_ERROR_TEMPFILE",
                              "Error creating temporary file")
             /\ pc' = "cleanup"
             /\ UNCHANGED out
        ELSE IF output_format \notin Formats
        THEN \* default: g_assert_not_reached ()
             /\ pc' = "aborted"
             /\ UNCHANGED << out, error >>
        ELSE LET header ==
                   IF output_format = "FORMAT_TEXT"
                   THEN IF no_heading THEN << >>
                        ELSE << _print_text_header(meta, product_name) >>
                   ELSE << PrintMarkupHeader(meta, output_format) >>
                 aborts == header # << >> /\ header[1].os = << ABORT >>
             IN  /\ out' = IF aborts THEN out ELSE out \o header
                 /\ pc' = IF aborts THEN "aborted" ELSE "dump"
                 /\ UNCHANGED error
    /\ idx' = 1
    /\ UNCHANGED << output_format, no_heading, use_localtime, live_mode, delim,
                    output_loc, fileargs, allidxfiles, isolated_index,
                    legacy_encoding, meta, seen, nargs, exit_code,
                    G_DISABLE_ASSERT, parsed, win_filetime, deltime, checked >>

\* A variant of the operator below that never takes the legacy path.
PathSource_AlwaysUnicode(record) == record.raw_uni_path

\* The path handed to the conversion, utils.c:1106-1107, 1163-1164, 1223-1224
PathSource(record) ==
    IF legacy_encoding # NULL THEN record.raw_legacy_path
    ELSE record.raw_uni_path

\* The index column, utils.c:1092-1094, 1135-1138, 1197-1200
IndexOf(record, m) ==
    IF m.type = "RECYCLE_BIN_TYPE_FILE"
    THEN << record.index_n >> ELSE << record.index_s >>

\* A variant of the operator below that prints every size as a number.
FileSizeText_NoSentinel(record, faulty) == PRIu64(record.filesize)

\* The size column, utils.c:1102-1104, 1155-1159, 1217-1221.  faulty: what
\* the printer writes for a faulty size.
FileSizeText(record, faulty) ==
    IF record.filesize = G_MAXUINT64 THEN faulty
    ELSE PRIu64(record.filesize)

\* What one printer writes for one record and what it leaves in the record.
\* src, enc: the arguments of conv_path_to_utf8_with_tmpl; path_form, path:
\* what stands in the place of the path, and the characters written there
\* (none for the empty element <path/>).
Printed(record, m, format, escape, form_of_null, text_of_null, faulty) ==
    LET src == PathSource(record)
        c == conv_path_to_utf8_with_tmpl(src, legacy_encoding, escape,
                                         record.error)
    IN  [ item |-> [ kind |-> "record", fmt |-> format, pos |-> idx,
                     index |-> IndexOf(record, m),
                     size |-> FileSizeText(record, faulty),
                     src |-> src, enc |-> legacy_encoding,
                     path_form |-> IF c.text # NoText THEN "text"
                                   ELSE form_of_null,
                     path |-> IF c.text # NoText THEN c.text
                              ELSE text_of_null ],
          record |-> [ record EXCEPT !.error = c.error ] ]

\* "???"
QuestionMarks == << 63, 63, 63 >>

\* the characters of the JSON literal null
JsonNull == << 110, 117, 108, 108 >>

\* A variant of the operator below that puts the record before what was
\* printed so far.
PrintRecord_Prepend(format, p) ==
    /\ pc = "dump"
    /\ idx <= Len(meta.records)
    /\ output_format = format
    /\ out' = << p.item >> \o out
    /\ meta' = [ meta EXCEPT !.records[idx] = p.record ]
    /\ idx' = idx + 1
    /\ UNCHANGED << pc, output_format, no_heading, use_localtime, live_mode,
                    delim, output_loc, fileargs, allidxfiles, isolated_index,
                    legacy_encoding, seen, error, nargs, exit_code,
                    G_DISABLE_ASSERT, parsed, win_filetime, deltime, checked >>

\* One call of the record printer by g_ptr_array_foreach, utils.c:1296
PrintRecord(format, p) ==
    /\ pc = "dump"
    /\ idx <= Len(meta.records)
    /\ output_format = format
    /\ out' = Append(out, p.item)
    /\ meta' = [ meta EXCEPT !.records[idx] = p.record ]
    /\ idx' = idx + 1
    /\ UNCHANGED << pc, output_format, no_heading, use_localtime, live_mode,
                    delim, output_loc, fileargs, allidxfiles, isolated_index,
                    legacy_encoding, seen, error, nargs, exit_code,
                    G_DISABLE_ASSERT, parsed, win_filetime, deltime, checked >>

\* _print_text_record, utils.c:1079-1119
_print_text_record ==
    /\ pc = "dump" /\ idx <= Len(meta.records)
    /\ PrintRecord("FORMAT_TEXT",
          Printed(meta.records[idx], meta, "FORMAT_TEXT", NULL,
                  "text", QuestionMarks, QuestionMarks))

\* _print_xml_record, utils.c:1122-1181
_print_xml_record ==
    /\ pc = "dump" /\ idx <= Len(meta.records)
    /\ PrintRecord("FORMAT_XML",
          Printed(meta.records[idx], meta, "FORMAT_XML", NULL,
                  "<path/>", NoText, MinusOne))

\* _print_json_record, utils.c:1184-1239
_print_json_record ==
    /\ pc = "dump" /\ idx <= Len(meta.records)
    /\ PrintRecord("FORMAT_JSON",
          Printed(meta.records[idx], meta, "FORMAT_JSON", "json_escape",
                  "null", JsonNull, JsonNull))

\* The end of dump_content, utils.c:1297-1303: the footer and the temporary
\* file.  clean_ok: clean_tempfile succeeds.  main() goes on to
\* rifiuti_cleanup either way.
dump_content_end ==
    /\ pc = "dump"
    /\ idx > Len(meta.records)
    /\ out' = IF output_format = "FORMAT_TEXT" THEN out
              ELSE Append(out, [ kind |-> "footer", fmt |-> output_format ])
    /\ \E clean_ok \in BOOLEAN :
        error' = IF output_loc # NULL /\ ~ clean_ok
                 THEN Err("R2_FATAL_ERROR", "R2_FATAL_ERROR_TEMPFILE",
                          "Error moving temporary file")
                 ELSE error
    /\ pc' = "cleanup"
    /\ UNCHANGED << output_format, no_heading, use_localtime, live_mode, delim,
                    output_loc, fileargs, allidxfiles, isolated_index,
                    legacy_encoding, meta, seen, nargs, idx, exit_code,
                    G_DISABLE_ASSERT, parsed, win_filetime, deltime, checked >>

-----------------------------------------------------------------------------
(* The exit code, utils.c:1307-1446 *)

\* _get_exit_code, utils.c:1338-1368
_get_exit_code(err) ==
    IF err = NoError THEN "EXIT_OK"
    ELSE IF err.domain = "G_OPTION_ERROR" THEN "EXIT_ERR_ARG"
    ELSE IF err.domain = "G_FILE_ERROR" THEN "EXIT_ERR_OPEN_FILE"
    ELSE IF g_error_matches(err, "R2_FATAL_ERROR",
                            "R2_FATAL_ERROR_ILLEGAL_DATA")
    THEN "EXIT_ERR_ILLEGAL_DATA"
    ELSE IF g_error_matches(err, "R2_FATAL_ERROR", "R2_FATAL_ERROR_TEMPFILE")
    THEN "EXIT_ERR_WRITE_FILE"
    ELSE IF g_error_matches(err, "R2_FATAL_ERROR",
                            "R2_FATAL_ERROR_LIVE_UNSUPPORTED")
    THEN "EXIT_ERR_NO_LIVE"
    ELSE "EXIT_ERR_UNHANDLED"

\* A variant of the operator below that does not look at the record.
_dump_rec_error_Ignore(record, flag) == flag

\* _dump_rec_error, utils.c:1307-1330: the flag after the call
_dump_rec_error(record, flag) ==
    IF record.error = NoError THEN flag ELSE TRUE

\* g_ptr_array_foreach (meta->records, _dump_rec_error, &flag), utils.c:1401
RECURSIVE ForeachDumpRecError(_, _)
ForeachDumpRecError(records, flag) ==
    IF records = << >> THEN flag
    ELSE ForeachDumpRecError(Tail(records),
                             _dump_rec_error(Head(records), flag))

\* A variant of the operator below that does not walk the records.
_has_record_error_TableOnly(m) == Cardinality(m.invalid_records) # 0

\* _has_record_error, utils.c:1371-1405
_has_record_error(m) ==
    ForeachDumpRecError(m.records, Cardinality(m.invalid_records) # 0)

\* A variant of the operator below in which the warning of dubious data
\* comes before the status of the fatal error.
CleanupCode_WarningFirst(err, m) ==
    IF _has_record_error(m) THEN "EXIT_ERR_DUBIOUS_DATA"
    ELSE _get_exit_code(err)

\* The code rifiuti_cleanup returns, utils.c:1416-1424
CleanupCode(err, m) ==
    LET code == _get_exit_code(err)
    IN  IF _has_record_error(m) /\ code = "EXIT_OK"
        THEN "EXIT_ERR_DUBIOUS_DATA" ELSE code

\* rifiuti_cleanup, utils.c:1413-1446.  What it frees is kept in the state
\* as it was.
rifiuti_cleanup ==
    /\ pc = "cleanup"
    /\ exit_code' = CleanupCode(error, meta)
    /\ error' = NoError
    /\ pc' = "done"
    /\ UNCHANGED << output_format, no_heading, use_localtime, live_mode, delim,
                    output_loc, fileargs, allidxfiles, isolated_index,
                    legacy_encoding, meta, seen, nargs, idx, out,
                    G_DISABLE_ASSERT, parsed, win_filetime, deltime, checked >>

-----------------------------------------------------------------------------
(* The program *)

Next ==
    \/ _set_opt_format
    \/ _set_opt_noheading
    \/ _set_opt_delim
    \/ _set_output_path
    \/ _option_deprecated
    \/ _check_legacy_encoding
    \/ _show_ver_and_exit
    \/ OptLocaltime
    \/ OptLive
    \/ ArgFile
    \/ OptUnknown
    \/ HelpAll
    \/ ParseEnd
    \/ do_parse_records
    \/ ScanEnd
    \/ dump_content_begin
    \/ _print_text_record
    \/ _print_xml_record
    \/ _print_json_record
    \/ dump_content_end
    \/ rifiuti_cleanup

Spec == Init /\ [][Next]_vars

-----------------------------------------------------------------------------
(* The version guess on its own: every metadata value a reader could leave, *)
(* handed to the header of dump_content.                                   *)

GuessRecords(type, n) ==
    [ i \in 1..n |->
        IF type = "RECYCLE_BIN_TYPE_FILE"
        THEN Rec(i, NULL, UniGood, LegacyGood, U64Zero, NoError)
        ELSE Rec(0, << "a", i >>, UniGood, NoPath, U64Zero, NoError) ]

GuessMetas ==
    { [ type            |-> type,
        filename        |-> "a",
        version         |-> version,
        recordsize      |-> recordsize,
        total_entry     |-> total_entry,
        fill_junk       |-> fill_junk,
        records         |-> GuessRecords(type, n),
        invalid_records |-> { } ] :
      type \in RbinTypes,
      version \in DirVersions \cup FileVersions,
      recordsize \in RecordSizes,
      total_entry \in { 0, 5 },
      fill_junk \in BOOLEAN,
      n \in 0..MaxRecords }

InitGuess ==
    /\ pc = "dump_begin"
    /\ output_format \in Formats
    /\ no_heading \in BOOLEAN
    /\ no_heading => output_format = "FORMAT_TEXT"
    /\ use_localtime = FALSE
    /\ live_mode = FALSE
    /\ delim = "\t"
    /\ output_loc = NULL
    /\ fileargs = << << "a" >> >>
    /\ allidxfiles = << >>
    /\ isolated_index = FALSE
    /\ legacy_encoding = NULL
    /\ seen = NoSeen
    /\ error = NoError
    /\ nargs = 1
    /\ idx = 0
    /\ parsed = << >>
    /\ win_filetime = U64Zero
    /\ deltime = NoDateTime
    /\ checked = NoCall
    /\ out = << >>
    /\ exit_code = NULL
    /\ G_DISABLE_ASSERT \in BOOLEAN
    /\ meta \in { m \in GuessMetas : m.version \in VersionsOf(m.type) }

NextGuess == dump_content_begin

SpecGuess == InitGuess /\ [][NextGuess]_vars

\* The text header was printed: _guess_windows_ver was called and returned.
Guessed ==
    /\ pc = "dump"
    /\ out # << >>
    /\ out[1].kind = "header"
    /\ out[1].fmt = "FORMAT_TEXT"

IsInfo2Me03 ==
    /\ meta.type = "RECYCLE_BIN_TYPE_FILE"
    /\ meta.version = "VERSION_ME_03"

Shown(g) == << "OS Guess: ", os_strings[g] >>

-----------------------------------------------------------------------------
(* The record printers as functions of one record: SpecSize starts where    *)
(* dump_content has printed the header of an artifact with one record, and  *)
(* draws the size field of that record from SizeSamples.                    *)

SizeLimbs == { 0, 1, 10, 32768, 65534, 65535 }

SizeSamples ==
    { UInt64(a, b, c, d) : a \in SizeLimbs, b \in SizeLimbs,
                           c \in SizeLimbs, d \in SizeLimbs }

InitSize ==
    /\ pc = "dump"
    /\ output_format \in Formats
    /\ no_heading = FALSE
    /\ use_localtime = FALSE
    /\ live_mode = FALSE
    /\ delim = "\t"
    /\ output_loc = NULL
    /\ fileargs = << << "a" >> >>
    /\ allidxfiles = << << "a" >> >>
    /\ isolated_index = FALSE
    /\ legacy_encoding = NULL
    /\ seen = NoSeen
    /\ error = NoError
    /\ nargs = 1
    /\ idx = 1
    /\ parsed = allidxfiles
    /\ win_filetime = U64Zero
    /\ deltime = NoDateTime
    /\ checked = NoCall
    /\ out = << >>
    /\ exit_code = NULL
    /\ G_DISABLE_ASSERT = FALSE
    /\ \E type \in RbinTypes, filesize \in SizeSamples :
          meta = [ NewMeta(type) EXCEPT
                     !.filename = "a",
                     !.version = IF type = "RECYCLE_BIN_TYPE_FILE"
                                 THEN "VERSION_ME_03" ELSE "VERSION_VISTA",
                     !.records = << Rec(1, << "a" >>, UniGood, LegacyGood,
                                        filesize, NoError) >> ]

NextSize == _print_text_record \/ _print_xml_record \/ _print_json_record

SpecSize == InitSize /\ [][NextSize]_vars

-----------------------------------------------------------------------------
(* win_filetime_to_gdatetime as a function: SpecTime draws the FILETIME     *)
(* from 64-bit patterns around zero, the epoch, the end of year 9999 and    *)
(* both ends of int64_t.                                                    *)

TickSamples ==
    { UInt64(a, b, c, d) :
        a \in { 0, 412, 413, 9416, 9417, 32767, 32768, 33180, 33181, 65535 },
        b \in { 0, 32768, 65535 }, c \in { 0, 32768, 65535 },
        d \in { 0, 32768, 65535 } }

InitTime ==
    /\ pc = "filetime"
    /\ InitGlobals
    /\ meta = NewMeta("RECYCLE_BIN_TYPE_FILE")
    /\ G_DISABLE_ASSERT = FALSE
    /\ win_filetime \in TickSamples
    /\ deltime = NoDateTime
    /\ checked = NoCall

NextTime == win_filetime_to_gdatetime

SpecTime == InitTime /\ [][NextTime]_vars

-----------------------------------------------------------------------------
(* _check_file_args as a function: SpecArgs makes the calls                 *)
(* _fileargs_handler makes, the one of utils.c:457-458 about the file       *)
(* argument and those of the loop of utils.c:487-493 about the folders of   *)
(* a live system, and keeps the arguments and the result of the last one.   *)

\* One call and what came of it.  before: the list handed in; err: what
\* g_set_error was called with.
Call(path, fs, before, r) ==
    [ called |-> TRUE, path |-> path, fs |-> fs, before |-> before,
      ok |-> r.ok, err |-> r.err ]

InitArgs ==
    /\ live_mode \in BOOLEAN
    /\ \E type \in RbinTypes, path \in PathNames :
        /\ fileargs = IF live_mode THEN << >> ELSE << << path >> >>
        /\ meta = [ NewMeta(type) EXCEPT
                      !.filename = IF live_mode THEN "(current system)"
                                   ELSE path ]
    /\ pc = IF live_mode THEN "bins" ELSE "arg"
    /\ idx = 1
    /\ output_format = "FORMAT_UNKNOWN"
    /\ no_heading = FALSE
    /\ use_localtime = FALSE
    /\ delim = NULL
    /\ output_loc = NULL
    /\ allidxfiles = << >>
    /\ isolated_index = FALSE
    /\ legacy_encoding = NULL
    /\ seen = NoSeen
    /\ error = NoError
    /\ nargs = Len(fileargs) + (IF live_mode THEN 1 ELSE 0)
    /\ parsed = << >>
    /\ out = << >>
    /\ exit_code = NULL
    /\ G_DISABLE_ASSERT = FALSE
    /\ win_filetime = U64Zero
    /\ deltime = NoDateTime
    /\ checked = NoCall

\* The call of utils.c:457-458: its result is that of the handler.
CheckFileArg ==
    /\ pc = "arg"
    /\ \E fs \in FsAnswers :
        LET r == _check_file_args(fileargs[1], allidxfiles, meta.type, TRUE,
                                  isolated_index, fs)
        IN  /\ Len(r.list) <= MaxFiles
            /\ allidxfiles' = r.list
            /\ isolated_index' = r.iso
            /\ error' = IF r.ok THEN error ELSE r.err
            /\ pc' = IF r.ok THEN "scan" ELSE "cleanup"
            /\ checked' = Call(fileargs[1], fs, allidxfiles, r)
    /\ UNCHANGED << output_format, no_heading, use_localtime, live_mode, delim,
                    output_loc, fileargs, legacy_encoding, meta, seen, nargs,
                    idx, out, exit_code, G_DISABLE_ASSERT, parsed,
                    win_filetime, deltime >>

\* One turn of the loop of utils.c:487-493: bindirs->pdata[idx] is checked
\* with no isolated_index and no error pointer, the value returned is
\* dropped, and after the last folder the handler returns TRUE.
CheckBinDir ==
    /\ pc = "bins"
    /\ idx <= Len(BinDirs)
    /\ \E fs \in FsAnswers :
        LET r == _check_file_args(BinDirs[idx], allidxfiles, meta.type,
                                  FALSE, FALSE, fs)
        IN  /\ Len(r.list) <= MaxFiles
            /\ allidxfiles' = r.list
            /\ checked' = Call(BinDirs[idx], fs, allidxfiles, r)
    /\ idx' = idx + 1
    /\ pc' = IF idx = Len(BinDirs) THEN "scan" ELSE pc
    /\ UNCHANGED << output_format, no_heading, use_localtime, live_mode, delim,
                    output_loc, fileargs, isolated_index, legacy_encoding,
                    meta, seen, error, nargs, out, exit_code,
                    G_DISABLE_ASSERT, parsed, win_filetime, deltime >>

NextArgs == CheckFileArg \/ CheckBinDir

SpecArgs == InitArgs /\ [][NextArgs]_vars

-----------------------------------------------------------------------------
(* rifiuti_cleanup as a function: SpecCleanup hands it every kind of error  *)
(* _get_exit_code tells apart, and errors it has no case for, together      *)
(* with artifacts with and without failed records and entries.             *)

\* One error for each branch of utils.c:1348-1365, the last two for the
\* final else, and no error at all.
ErrorSamples ==
    { NoError,
      OptionError("G_OPTION_ERROR_FAILED", "Output was already set"),
      OptionError("G_OPTION_ERROR_BAD_VALUE", "Illegal output format"),
      FileError("G_FILE_ERROR_NOENT", "does not exist."),
      Err("R2_FATAL_ERROR", "R2_FATAL_ERROR_ILLEGAL_DATA", "illegal data"),
      Err("R2_FATAL_ERROR", "R2_FATAL_ERROR_TEMPFILE",
          "Error creating temporary file"),
      Err("R2_FATAL_ERROR", "R2_FATAL_ERROR_LIVE_UNSUPPORTED",
          "Live probation unsupported under this system"),
      Err("G_CONVERT_ERROR", "G_CONVERT_ERROR_ILLEGAL_SEQUENCE",
          "Invalid byte sequence in conversion input"),
      Err("G_IO_ERROR", "G_IO_ERROR_FAILED", "Input/output error") }

\* The errors a record can carry.
RecordErrorSamples == { NoError, ConvPathError, DubiousPathError }

CleanupMetas ==
    { [ NewMeta(type) EXCEPT
          !.filename = "a",
          !.records = [ i \in 1..n |->
                          Rec(i, << "a", i >>, UniGood, LegacyGood, U64Zero,
                              errs[i]) ],
          !.invalid_records = invalid ] :
      type \in RbinTypes,
      n \in 0..MaxRecords,
      errs \in [ 1..MaxRecords -> RecordErrorSamples ],
      invalid \in { { }, { << "|", 20, 820 >> } } }

InitCleanup ==
    /\ pc = "cleanup"
    /\ error \in ErrorSamples
    /\ meta \in CleanupMetas
    /\ output_format = "FORMAT_TEXT"
    /\ no_heading = FALSE
    /\ use_localtime = FALSE
    /\ live_mode = FALSE
    /\ delim = "\t"
    /\ output_loc = NULL
    /\ fileargs = << << "a" >> >>
    /\ allidxfiles = << << "a" >> >>
    /\ isolated_index = FALSE
    /\ legacy_encoding = NULL
    /\ seen = NoSeen
    /\ nargs = 1
    /\ idx = 1
    /\ parsed = << >>
    /\ win_filetime = U64Zero
    /\ deltime = NoDateTime
    /\ checked = NoCall
    /\ out = << >>
    /\ exit_code = NULL
    /\ G_DISABLE_ASSERT = FALSE

NextCleanup == rifiuti_cleanup

SpecCleanup == InitCleanup /\ [][NextCleanup]_vars

-----------------------------------------------------------------------------
(* Claims about the version guess, checked under SpecGuess *)

\* C1: for an INFO2 file of the ME/2000/XP/2003 version the guess is, in this
\* order: Windows ME when the record size is 280; otherwise "Windows 2000, XP
\* or 2003" when there is no record; otherwise Windows 2000 when the junk
\* flag is set and "Windows XP or 2003" when it is clear.  So record size
\* 280 with zero records gives Windows ME.
C1_GuessOrder ==
    (Guessed /\ IsInfo2Me03) =>
        LET g == IF meta.recordsize = 280 THEN "OS_GUESS_ME"
                 ELSE IF Len(meta.records) = 0 THEN "OS_GUESS_2K_03"
                 ELSE IF meta.fill_junk THEN "OS_GUESS_2K"
                 ELSE "OS_GUESS_XP_03"
        IN  /\ _guess_windows_ver(meta) = g
            /\ out[1].os = Shown(g)

C1_Witness ==
    /\ Guessed /\ IsInfo2Me03
    /\ meta.recordsize = 280
    /\ meta.records = << >>
    /\ out[1].os = << "OS Guess: ", "Windows ME" >>

\* C2 as stated: an INFO2 file with record size 280 and at least one record
\* gets one of the two markers other than ME, chosen by the junk flag.
C2_Size280ConsultsJunk ==
    (Guessed /\ meta.type = "RECYCLE_BIN_TYPE_FILE"
        /\ meta.recordsize = 280 /\ Len(meta.records) >= 1) =>
        _guess_windows_ver(meta) =
            IF meta.fill_junk THEN "OS_GUESS_2K" ELSE "OS_GUESS_XP_03"

\* C2 as amended: for an INFO2 file of the ME/2000/XP/2003 version with at
\* least one record, the junk flag is consulted, and picks Windows 2000 (set)
\* or "Windows XP or 2003" (clear), exactly when the record size is not 280;
\* with record size 280 the guess is Windows ME whatever the flag.
C2_JunkOnlyIfNot280 ==
    (Guessed /\ IsInfo2Me03 /\ Len(meta.records) >= 1) =>
        /\ meta.recordsize # 280 =>
              /\ meta.fill_junk => out[1].os = Shown("OS_GUESS_2K")
              /\ ~ meta.fill_junk => out[1].os = Shown("OS_GUESS_XP_03")
        /\ meta.recordsize = 280 => out[1].os = Shown("OS_GUESS_ME")

C2_Witness ==
    /\ Guessed /\ IsInfo2Me03
    /\ Len(meta.records) >= 1
    /\ meta.recordsize = 280
    /\ meta.fill_junk
    /\ out[1].os = Shown("OS_GUESS_ME")

\* C3: for a $Recycle.bin folder the guess is "Vista - 8.1" exactly when the
\* version is the Vista tag, "Windows 10" exactly when it is the Windows 10
\* tag, and unknown for every other version, whatever the record size, the
\* number of records and the junk flag are.
C3_DirByVersionOnly ==
    (Guessed /\ meta.type = "RECYCLE_BIN_TYPE_DIR") =>
        LET g == _guess_windows_ver(meta)
        IN  /\ g = "OS_GUESS_VISTA" <=> meta.version = "VERSION_VISTA"
            /\ g = "OS_GUESS_10" <=> meta.version = "VERSION_WIN10"
            /\ g = "OS_GUESS_UNKNOWN" <=>
                  meta.version \notin { "VERSION_VISTA", "VERSION_WIN10" }
            /\ out[1].os = IF g = "OS_GUESS_UNKNOWN"
                           THEN << "OS detection failed" >> ELSE Shown(g)

C3_Witness ==
    /\ Guessed
    /\ meta.type = "RECYCLE_BIN_TYPE_DIR"
    /\ meta.version = "VERSION_NOT_FOUND"
    /\ meta.recordsize = 280
    /\ Len(meta.records) >= 1
    /\ meta.fill_junk
    /\ out[1].os = << "OS detection failed" >>

\* C4 as stated: whatever the metadata, the guess is a value of the
\* enumeration and the program does not abort in the classifier.
C4_NeverAborts ==
    /\ pc # "aborted"
    /\ Guessed => _guess_windows_ver(meta) \in OsGuesses

\* Metadata that agree with m on type, version, record size, number of
\* records and junk flag.
SameKey(m) ==
    { m2 \in GuessMetas :
        /\ m2.type = m.type
        /\ m2.version = m.version
        /\ m2.recordsize = m.recordsize
        /\ Len(m2.records) = Len(m.records)
        /\ m2.fill_junk = m.fill_junk }

\* C5: the guess depends on (type, version, recordsize, number of records,
\* fill_junk) only, so that metadata agreeing on these get the same guess,
\* and the call leaves the metadata as they were.
C5_GuessIsFunctionOfKey ==
    /\ [](\A m2 \in SameKey(meta) :
            _guess_windows_ver(m2) = _guess_windows_ver(meta))
    /\ [][pc = "dump_begin" => meta' = meta]_vars

C5_Witness ==
    /\ Guessed
    /\ IsInfo2Me03
    /\ meta.recordsize = 800
    /\ \E m2 \in SameKey(meta) : m2.total_entry # meta.total_entry

-----------------------------------------------------------------------------
(* Claims about the whole run, checked under Spec *)

RecordErrors(m) ==
    { i \in 1..Len(m.records) : m.records[i].error # NoError }

RecordItems == { i \in 1..Len(out) : out[i].kind = "record" }

\* C6 as stated: from the end of the scan on, dump_content and the record
\* printers leave the metadata and every record as they are: the record
\* list, invalid_records and every record's error do not change.
C6_DumpLeavesMeta ==
    [][(pc \in { "dump_begin", "dump" }) => meta' = meta]_vars

\* C7: when rifiuti_cleanup is entered without a fatal error it returns
\* EXIT_OK exactly when no record has an error and invalid_records is empty,
\* and EXIT_ERR_DUBIOUS_DATA otherwise; so record and entry failures alone
\* never give one of the fatal exit codes.
C7_WarningExitCode ==
    [][(pc = "cleanup" /\ error = NoError) =>
          exit_code' = IF RecordErrors(meta) = { }
                          /\ meta.invalid_records = { }
                       THEN "EXIT_OK" ELSE "EXIT_ERR_DUBIOUS_DATA"]_vars

C7_Witness ==
    /\ pc = "done"
    /\ exit_code = "EXIT_ERR_DUBIOUS_DATA"
    /\ RecordErrors(meta) # { }
    /\ meta.invalid_records = { }

\* C8: the flag _has_record_error returns is true if and only if
\* invalid_records is not empty or at least one record of the list has its
\* error set; it is false for an artifact without records and entries.
C8_FlagIffAnyFailure ==
    _has_record_error(meta) <=>
        (meta.invalid_records # { } \/ RecordErrors(meta) # { })

C8_Witness ==
    /\ pc = "done"
    /\ meta.invalid_records = { }
    /\ Len(meta.records) >= 2
    /\ RecordErrors(meta) = { Len(meta.records) }
    /\ _has_record_error(meta)

\* C9: legacy_encoding is set only to a code page that passed the
\* ASCII-compatibility check.  Once -l was given and legacy_encoding is
\* still unset (the value was empty or failed the check), option parsing has
\* failed with an option error, main() is on its way out with EXIT_ERR_ARG,
\* and no record was decoded or printed; the error of a failed check is an
\* argument error met with legacy_encoding unset; whatever is printed was
\* converted with the accepted code page or with none.
C9_CodepageCheckedBeforeUse ==
    /\ legacy_encoding # NULL =>
          /\ seen.encoding
          /\ enc_is_ascii_compatible(legacy_encoding) = "ok"
    /\ (seen.encoding /\ legacy_encoding = NULL) =>
          /\ pc \in { "cleanup", "done" }
          /\ pc = "cleanup" => error.domain = "G_OPTION_ERROR"
          /\ pc = "done" => exit_code = "EXIT_ERR_ARG"
          /\ meta.records = << >>
          /\ out = << >>
    /\ (\E enc \in Encodings :
            /\ enc_is_ascii_compatible(enc) # "ok"
            /\ error = EncodingError(enc_is_ascii_compatible(enc))) =>
          /\ pc = "cleanup"
          /\ seen.encoding
          /\ legacy_encoding = NULL
          /\ _get_exit_code(error) = "EXIT_ERR_ARG"
    /\ \A i \in RecordItems :
          out[i].enc = NULL \/ enc_is_ascii_compatible(out[i].enc) = "ok"

C9_Witness ==
    /\ seen.encoding
    /\ legacy_encoding = NULL
    /\ pc = "cleanup"
    /\ error = EncodingError("G_CONVERT_ERROR_ILLEGAL_SEQUENCE")
    /\ fileargs # << >>

\* C10: for every record and every output format, the path handed to the
\* conversion is the raw Unicode path, with no code page, when -l was not
\* given, and the raw legacy path, with the code page of -l, when it was.
C10_PathSource ==
    \A i \in RecordItems :
        LET record == meta.records[out[i].pos]
        IN  /\ out[i].enc = legacy_encoding
            /\ out[i].src = IF legacy_encoding = NULL
                            THEN record.raw_uni_path
                            ELSE record.raw_legacy_path

C10_Witness ==
    \E i \in RecordItems :
        /\ out[i].fmt = "FORMAT_JSON"
        /\ out[i].enc = "CP1252"
        /\ out[i].src = LegacyGood
        /\ meta.records[out[i].pos].raw_uni_path = UniBad

\* The conversion of a printed record gave no text.
ConversionFailed(item) ==
    conv_path_to_utf8_with_tmpl(item.src, item.enc, NULL, NoError).text
        = NoText

\* C11 as stated: a record whose path conversion fails is still printed, and
\* in each of the three formats the place of the path holds a visible
\* placeholder, never an empty path.
C11_PlaceholderOnFailure ==
    /\ pc = "dump" => Cardinality(RecordItems) = idx - 1
    /\ \A i \in RecordItems :
          ConversionFailed(out[i]) => out[i].path # << >>

\* dump_content prints a header: always in XML and JSON, in text unless
\* -n was given.
HasHeader == output_format # "FORMAT_TEXT" \/ ~ no_heading

HeaderCount == IF out # << >> /\ out[1].kind = "header" THEN 1 ELSE 0

\* C13: dump_content prints every record of the list exactly once and in
\* the order of the list; the header, when there is one, comes before the
\* first record and the footer, when there is one, after the last.
C13_DumpOrder ==
    /\ [](/\ pc = "dump" => (HasHeader <=> HeaderCount = 1)
          /\ \A i \in 1..Len(out) :
                /\ out[i].kind = "header" => i = 1
                /\ out[i].kind = "record" =>
                      /\ out[i].pos = i - HeaderCount
                      /\ out[i].pos \in 1..Len(meta.records)
                      /\ out[i].index =
                            IndexOf(meta.records[out[i].pos], meta)
                      /\ out[i].src = PathSource(meta.records[out[i].pos])
                /\ out[i].kind = "footer" =>
                      /\ i = Len(out)
                      /\ i - 1 - HeaderCount = Len(meta.records)
                      /\ pc # "dump")
    /\ [][(pc = "dump" /\ pc' # "dump") =>
            /\ Cardinality({ i \in 1..Len(out') : out'[i].kind = "record" })
                  = Len(meta.records)
            /\ output_format # "FORMAT_TEXT" =>
                  out'[Len(out')].kind = "footer"
            /\ output_format = "FORMAT_TEXT" =>
                  \A i \in 1..Len(out') : out'[i].kind # "footer"]_vars

C13_Witness ==
    /\ pc = "cleanup"
    /\ Len(out) = 4
    /\ out[1].kind = "header"
    /\ out[2].kind = "record" /\ out[2].pos = 1
    /\ out[3].kind = "record" /\ out[3].pos = 2
    /\ out[4].kind = "footer"
    /\ out[2].src # out[3].src

\* C14: do_parse_records hands every file of allidxfiles to the callback
\* exactly once and in the order of the list, one call after the other; a
\* file the callback could not read does not keep the files after it from
\* being handed over, and the scan ends only after the last file.
C14_ScanOrder ==
    /\ [](/\ pc = "scan" => parsed = SubSeq(allidxfiles, 1, idx - 1)
          /\ pc \in { "dump_begin", "dump" } => parsed = allidxfiles)
    /\ [][pc = "scan" =>
            /\ pc' # "scan" => parsed = allidxfiles /\ parsed' = parsed
            /\ pc' = "scan" =>
                  /\ parsed' = Append(parsed, allidxfiles[idx])
                  /\ idx' = idx + 1]_vars

C14_Witness ==
    /\ pc = "dump_begin"
    /\ Len(allidxfiles) = 2
    /\ parsed = allidxfiles
    /\ allidxfiles[1] \in meta.invalid_records
    /\ Len(meta.records) = 1
    /\ meta.records[1].index_s = allidxfiles[2]

-----------------------------------------------------------------------------
(* Claims about the size column, checked under SpecSize *)

\* "18446744073709551615"
MaxLiteral ==
    << 49, 56, 52, 52, 54, 55, 52, 52, 48, 55, 51, 55, 48, 57, 53, 53, 49, 54,
       49, 53 >>

\* C12: a record whose size is the all-bits-set value is printed with "???"
\* in text, -1 in XML and null in JSON, never as 18446744073709551615; every
\* other size is printed as its exact unsigned decimal value.
C12_SizeSentinel ==
    \A i \in RecordItems :
        LET filesize == meta.records[out[i].pos].filesize
            t == out[i].size
        IN  /\ t # MaxLiteral
            /\ filesize = G_MAXUINT64 =>
                  t = CASE out[i].fmt = "FORMAT_TEXT" -> QuestionMarks
                        [] out[i].fmt = "FORMAT_XML"  -> MinusOne
                        [] out[i].fmt = "FORMAT_JSON" -> JsonNull
            /\ filesize # G_MAXUINT64 =>
                  /\ t # << >>
                  /\ \A k \in 1..Len(t) : t[k] \in 48..57
                  /\ Len(t) > 1 => t[1] # 48
                  /\ Reverse(DecimalValue(t)) = << 0 >> \o filesize

C12_Witness ==
    \E i \in RecordItems :
        /\ meta.records[out[i].pos].filesize = G_MAXUINT64
        /\ out[i].fmt = "FORMAT_XML"
        /\ out[i].size = MinusOne

-----------------------------------------------------------------------------
(* Claims about the deletion time, checked under SpecTime *)

\* x times 10000000, on limbs with the least significant first
TimesTenMillion(x) ==
    LET t(y) == MulAdd10(y, 0)
    IN  t(t(t(t(t(t(t(x)))))))

\* The magnitude of a 64-bit signed number, in five limbs with the least
\* significant first.
Magnitude(x) == Reverse(IF IsNeg(x) THEN Neg64(x) ELSE x) \o << 0 >>

\* q is (ticks - 116444736000000000) / 10000000 rounded towards zero, the
\* difference taken without wraparound: q has the sign of the difference,
\* and 10000000 |q| <= |difference| < 10000000 |q| + 10000000.
ExactSeconds(ticks, q) ==
    LET d    == Sub64(ticks, FILETIME_EPOCH)
        prod == TimesTenMillion(Magnitude(q))
        rest == Reverse(SubLimbs(Magnitude(d), prod, 0))
    IN  /\ ~ SubOverflows(ticks)
        /\ q # U64Zero => IsNeg(q) = IsNeg(d)
        /\ LeqU(Reverse(prod), Reverse(Magnitude(d)))
        /\ rest[1] = 0 /\ rest[2] = 0 /\ rest[3] = 0
        /\ rest[4] * 65536 + rest[5] < 10000000

\* C15 as stated: for every signed 64-bit FILETIME the function returns a
\* valid UTC instant, never none, which is (ticks - 116444736000000000) /
\* 10000000 seconds from the Unix epoch, computed without wraparound.
C15_ValidInstant ==
    /\ pc # "aborted"
    /\ pc = "converted" =>
          /\ deltime.valid
          /\ ExactSeconds(win_filetime, deltime.unix)

-----------------------------------------------------------------------------
(* Claims about the file arguments, checked under Spec *)

\* The number of file arguments suits the mode: exactly one outside live
\* mode, none in live mode.
RightCount ==
    \/ ~ live_mode /\ Len(fileargs) = 1
    \/ live_mode /\ Len(fileargs) = 0

-----------------------------------------------------------------------------
(* Claims about _check_file_args, checked under SpecArgs *)

\* The path is valid for the type: a regular file, or for the folder type
\* a folder that can be read and holds an index file or the desktop.ini of
\* a recycle bin.
ValidPath(type, fs) ==
    \/ fs.kind = "regular"
    \/ /\ type = "RECYCLE_BIN_TYPE_DIR"
       /\ fs.kind = "dir"
       /\ fs.can_open
       /\ fs.nfiles > 0 \/ fs.desktop_ini

\* C17 as stated: _check_file_args returns TRUE exactly when the path is
\* valid for the type; every FALSE comes with an error and with the list as
\* it was; a folder of the folder type without index file is accepted, with
\* nothing appended, only when its desktop.ini names the recycle bin, and is
\* refused with a not-found error otherwise, whatever the list held.
C17_CheckFileArgs ==
    checked.called =>
        /\ checked.ok <=> ValidPath(meta.type, checked.fs)
        /\ ~ checked.ok =>
              /\ checked.err # NoError
              /\ allidxfiles = checked.before
        /\ /\ meta.type = "RECYCLE_BIN_TYPE_DIR"
           /\ checked.fs.kind = "dir"
           /\ checked.fs.can_open
           /\ checked.fs.nfiles = 0
           => IF checked.fs.desktop_ini
              THEN checked.ok /\ allidxfiles = checked.before
              ELSE /\ ~ checked.ok
                   /\ g_error_matches(checked.err, "G_FILE_ERROR",
                                      "G_FILE_ERROR_NOENT")

-----------------------------------------------------------------------------
(* Claims about the option callbacks, checked under Spec *)

\* The callback has returned FALSE with the error of a repeated option.
RepeatedOptionFails ==
    /\ pc' = "cleanup"
    /\ g_error_matches(error', "G_OPTION_ERROR", "G_OPTION_ERROR_FAILED")
    /\ error'.message \in { "Multiple delimiter options disallowed.",
                            "Multiple output destinations disallowed.",
                            "Multiple encoding options disallowed." }
    /\ UNCHANGED << delim, output_loc, legacy_encoding, output_format >>

\* C18: the callbacks of the delimiter, the output destination and the
\* legacy encoding each remember their first call, whatever it returned, in
\* a flag nothing clears, and every later call returns FALSE with an option
\* error and changes no setting, so that option parsing fails.
C18_RepeatedOptionFails ==
    [][ /\ \A o \in DOMAIN seen : seen[o] => seen'[o]
        /\ _set_opt_delim => seen'.delim
        /\ _set_output_path => seen'.output
        /\ _check_legacy_encoding => seen'.encoding
        /\ _set_opt_delim /\ seen.delim => RepeatedOptionFails
        /\ _set_output_path /\ seen.output => RepeatedOptionFails
        /\ _check_legacy_encoding /\ seen.encoding => RepeatedOptionFails
      ]_vars

\* The output destination was given twice: the first is kept and the
\* second has ended option parsing.
C18_Witness ==
    /\ pc = "cleanup"
    /\ seen.output
    /\ output_loc = "new.txt"
    /\ error = OptionError("G_OPTION_ERROR_FAILED",
                           "Multiple output destinations disallowed.")

\* The step is a call of a callback that asks for the format: -f with a
\* value that names it, -n and -t for text, -x for XML.
Request(format) ==
    \/ \E name \in FormatNames :
          DesiredFormat(name) = format /\ OptFormat(name)
    \/ format = "FORMAT_TEXT" /\ (_set_opt_noheading \/ _set_opt_delim)
    \/ format = "FORMAT_XML" /\ _option_deprecated

\* What a request does to the format: the first fixes it, a later one for
\* the same format returns TRUE and a later one for another format returns
\* FALSE with an option error, both leaving it as it is.
SetOnce(format) ==
    IF output_format = "FORMAT_UNKNOWN"
    THEN pc' = "parse" /\ output_format' = format
    ELSE IF output_format = format
    THEN pc' = "parse" /\ output_format' = output_format
    ELSE /\ pc' = "cleanup"
         /\ g_error_matches(error', "G_OPTION_ERROR", "G_OPTION_ERROR_FAILED")
         /\ output_format' = output_format

\* C19 as stated: over any sequence of -f, -x, -n and -t the first request
\* fixes the format, a later request for the same format succeeds without
\* changing it, and a request for another format fails with an option error
\* and leaves the format unchanged.
C19_FormatSetOnce ==
    [][\A format \in Formats : Request(format) => SetOnce(format)]_vars

\* C19: the same, except that a repeated -t, which asks for text again,
\* fails as a repeated option even when the format is text; the format is
\* unchanged then too, and no step changes a format that is set.
C19_FormatSetOnceButRepeatedDelim ==
    [][ /\ output_format # "FORMAT_UNKNOWN" => output_format' = output_format
        /\ \A format \in Formats :
              Request(format) /\ ~ (_set_opt_delim /\ seen.delim)
                 => SetOnce(format)
        /\ _set_opt_delim /\ seen.delim =>
              /\ pc' = "cleanup"
              /\ g_error_matches(error', "G_OPTION_ERROR",
                                 "G_OPTION_ERROR_FAILED")
      ]_vars

\* The format was fixed to XML and a later request for another format has
\* ended option parsing.
C19_Witness ==
    /\ pc = "cleanup"
    /\ output_format = "FORMAT_XML"
    /\ error = OptionError("G_OPTION_ERROR_FAILED", "Output was already set")

\* Option parsing has succeeded: rifiuti_init has returned true and main()
\* is in the scan or in dump_content.
ParsingSucceeded == pc \in { "scan", "dump_begin", "dump" }

\* C20: after option parsing has succeeded the output format is text, XML
\* or JSON, so that the default branch of the switch of dump_content is
\* never taken, the delimiter is not NULL, and the format is text if -n
\* (no_heading) or -t (the flag of _set_opt_delim) was given.
C20_DefaultsAfterParsing ==
    ParsingSucceeded =>
        /\ output_format \in Formats
        /\ delim # NULL
        /\ no_heading \/ seen.delim => output_format = "FORMAT_TEXT"

\* -n alone: the format is text by the request of -n and the delimiter is
\* the default of _set_def_output_opts.
C20_Witness ==
    /\ pc = "scan"
    /\ no_heading
    /\ ~ seen.delim
    /\ delim = "\t"
    /\ output_format = "FORMAT_TEXT"

-----------------------------------------------------------------------------
(* Claims about the exit status, checked under SpecCleanup *)

\* The status of each kind of fatal error.
FatalStatus(err) ==
    CASE err.domain = "G_OPTION_ERROR" -> "EXIT_ERR_ARG"
      [] err.domain = "G_FILE_ERROR" -> "EXIT_ERR_OPEN_FILE"
      [] err.domain = "R2_FATAL_ERROR"
         /\ err.code = "R2_FATAL_ERROR_ILLEGAL_DATA" -> "EXIT_ERR_ILLEGAL_DATA"
      [] err.domain = "R2_FATAL_ERROR"
         /\ err.code = "R2_FATAL_ERROR_TEMPFILE" -> "EXIT_ERR_WRITE_FILE"
      [] err.domain = "R2_FATAL_ERROR"
         /\ err.code = "R2_FATAL_ERROR_LIVE_UNSUPPORTED" -> "EXIT_ERR_NO_LIVE"
      [] OTHER -> "EXIT_ERR_UNHANDLED"

\* C21: when rifiuti_cleanup is entered with a fatal error it returns the
\* status of that error, which is neither EXIT_OK nor the warning
\* EXIT_ERR_DUBIOUS_DATA, whatever records and entries have failed.
C21_FatalStatusWins ==
    [][(pc = "cleanup" /\ error # NoError) =>
          /\ pc' = "done"
          /\ exit_code' = FatalStatus(error)
          /\ exit_code' \notin { "EXIT_OK", "EXIT_ERR_DUBIOUS_DATA" }]_vars

\* An error without a case of its own came with a failed record and a
\* failed entry, and the status is that of the error.
C21_Witness ==
    /\ pc = "done"
    /\ exit_code = "EXIT_ERR_UNHANDLED"
    /\ meta.invalid_records # { }
    /\ \E i \in 1..Len(meta.records) : meta.records[i].error # NoError

=============================================================================
